---- MODULE Spec2Model ----
(***************************************************************************)
(* Model of the FA2 "Blocks on Blocks" contract of src/FA2.py: a           *)
(* single-edition token ledger with operators, capped paid minting and     *)
(* administrative latches.                                                 *)
(*                                                                         *)
(* One action per entry point.  An entry point runs to completion; a       *)
(* failed sp.verify / sp.failwith aborts the call and the storage keeps    *)
(* the value it had before the call.  The variables op and result record   *)
(* the entry point called last and its outcome ("ok" or the error string). *)
(*                                                                         *)
(* The body of an entry point is an operator of the storage and the        *)
(* arguments (transfer_batch, mint_run, ..._err) that returns the error    *)
(* and the values written; the action of the entry point commits them.     *)
(* The variable operations holds the operations the call emits.  Four      *)
(* specifications drive the same actions with different callers and        *)
(* arguments: SpecMint (issuance), SpecTransfer (transfers and operators), *)
(* SpecGov (administration), SpecQuery (balance_of and the views) and      *)
(* SpecUri (a long sale, for the token URIs).                              *)
(***************************************************************************)
EXTENDS Integers, Sequences, FiniteSets

VARIABLES
    ledger,              \* self.data.ledger      : token_id -> owner
    hashes,              \* self.data.hashes      : token_id -> token hash
    operators,           \* self.data.operators   : set of (owner, operator, token_id)
    all_tokens,          \* self.data.all_tokens  : number of tokens issued
    price,               \* self.data.price
    max_editions,        \* self.data.max_editions
    script,              \* self.data.script
    base_uri,            \* self.data.base_uri
    paused,              \* self.data.paused
    locked,              \* self.data.locked
    administrator,       \* self.data.administrator
    balance,             \* sp.balance, the tez held by the contract
    support_operator,    \* FA2_config.support_operator
    allow_self_transfer, \* FA2_config.allow_self_transfer
    operations,          \* operations emitted by the entry point called last
    op,                  \* entry point called last
    result,              \* its outcome
    minted               \* sum of the amounts of the mint calls that succeeded

storage == <<ledger, hashes, operators, all_tokens, price, max_editions,
             script, base_uri, paused, locked, administrator, balance>>
config == <<support_operator, allow_self_transfer>>
vars == <<storage, config, operations, op, result, minted>>

----------------------------------------------------------------------------
(* Bounds of the model *)

MaxSupply == 2      \* largest max_editions an administrator passes
MaxIds == 111       \* max_editions of the long sale
MaxNat == 1001      \* largest argument of bytes_of_nat

(* FA2_config defaults; amounts of tez are counted in units of 1000000 mutez *)
config_price == 1
config_max_editions == 2

(* Callers and arguments *)
self_address == "self"
Address == {"admin", "alice", "bob"}
TokenIds == 0 .. MaxSupply
Timestamps == {0, 1}
Prices == {1, 2}
MintAmounts == -1 .. (MaxSupply + 1)
Payments == 0 .. (2 * MaxSupply)
TxAmounts == 0 .. 2
Scripts == {"", "script"}
BaseUris == {<<47>>, <<47, 97>>}

----------------------------------------------------------------------------
(* Error_message *)

OK == "ok"
token_undefined == "FA2_TOKEN_UNDEFINED"
insufficient_balance == "FA2_INSUFFICIENT_BALANCE"
not_operator == "FA2_NOT_OPERATOR"
not_owner == "FA2_NOT_OWNER"
bad_value == "FA2_BAD_VALUE"
max_editions_reached == "FA2_MAX_EDITIONS_REACHED"
operators_unsupported == "FA2_OPERATORS_UNSUPPORTED"
not_admin == "FA2_NOT_ADMIN"
err_paused == "FA2_PAUSED"
err_locked == "FA2_LOCKED"
bad_amount == "FA2_BAD_QUANTITY"
sale_started == "FA2_SALE_STARTED"
not_consecutive == "Token-IDs should be consecutive"
wrong_condition == "WrongCondition"

----------------------------------------------------------------------------
(* Operator_set *)

make_key(owner, operator, token_id) ==
    [owner |-> owner, operator |-> operator, token_id |-> token_id]

is_member(set, owner, operator, token_id) ==
    make_key(owner, operator, token_id) \in set

(* FA2_administrator.is_administrator, FA2_pause.is_paused, FA2_lock.is_locked *)
(* Faulty variant of is_administrator: the originating administrator     *)
(* keeps the role                                                          *)
is_administrator_origin(sender) == sender = administrator \/ sender = "admin"

is_administrator(sender) == sender = administrator
is_paused == paused
is_locked == locked

(* sp.keccak(sp.pack(record)): a collision-free symbolic hash of its fields *)
keccak(now, s, tid) == <<"keccak", now, s, tid>>

(* sp.transfer(arg, amount, destination); sp.send transfers the unit arg *)
sp_transfer(arg, amount, destination) ==
    [destination |-> destination, amount |-> amount, arg |-> arg]

(* sp.concat of a list of byte strings *)
RECURSIVE sp_concat(_)
sp_concat(l) == IF l = <<>> THEN <<>> ELSE Head(l) \o sp_concat(Tail(l))

----------------------------------------------------------------------------
(* bytes_of_nat: a byte string is the sequence of its bytes *)

(* The map c of the digits to their byte *)
c(x) == <<x + 48>>

(* Faulty variant of bytes_of_nat_loop: the digits are added at the end of *)
(* the list                                                                *)
RECURSIVE bytes_of_nat_loop_append(_, _)
bytes_of_nat_loop_append(x, res) ==
    IF ~(0 < x) THEN res
    ELSE bytes_of_nat_loop_append(x \div 10, res \o <<c(x % 10)>>)

(* sp.while 0 < x.value, res.value.push adding at the head of the list *)
RECURSIVE bytes_of_nat_loop(_, _)
bytes_of_nat_loop(x, res) ==
    IF ~(0 < x) THEN res
    ELSE bytes_of_nat_loop(x \div 10, <<c(x % 10)>> \o res)

bytes_of_nat(params) ==
    LET res == IF params = 0 THEN <<c(params % 10)>> ELSE <<>>
    IN  sp_concat(bytes_of_nat_loop(params, res))

----------------------------------------------------------------------------
(* FA2_core.transfer *)

(* Faulty variant of transfer_tx: the owner of the token is not compared    *)
(* with from_                                                              *)
transfer_tx_any_owner(l, sender, from_, tx) ==
    LET sender_verify ==
            \/ from_ = sender
            \/ is_member(operators, from_, sender, tx.token_id)
            \/ (allow_self_transfer /\ sender = self_address)
    IN  IF ~sender_verify
            THEN [err |-> not_operator, ledger |-> l]
        ELSE IF tx.token_id \notin DOMAIN hashes
            THEN [err |-> token_undefined, ledger |-> l]
        ELSE IF ~(tx.amount <= 1)
            THEN [err |-> insufficient_balance, ledger |-> l]
        ELSE IF tx.amount = 1
            THEN [err |-> OK, ledger |-> [l EXCEPT ![tx.token_id] = tx.to_]]
        ELSE [err |-> OK, ledger |-> l]

(* Faulty variant of transfer_tx: the amount is checked before the token   *)
(* is looked up                                                            *)
transfer_tx_amount_first(l, sender, from_, tx) ==
    LET sender_verify ==
            \/ from_ = sender
            \/ is_member(operators, from_, sender, tx.token_id)
            \/ (allow_self_transfer /\ sender = self_address)
    IN  IF ~sender_verify
            THEN [err |-> not_operator, ledger |-> l]
        ELSE IF ~(tx.amount <= 1)
            THEN [err |-> insufficient_balance, ledger |-> l]
        ELSE IF tx.token_id \notin DOMAIN hashes
            THEN [err |-> token_undefined, ledger |-> l]
        ELSE IF tx.amount = 1
            THEN IF l[tx.token_id] # from_
                    THEN [err |-> insufficient_balance, ledger |-> l]
                    ELSE [err |-> OK,
                          ledger |-> [l EXCEPT ![tx.token_id] = tx.to_]]
        ELSE [err |-> OK, ledger |-> l]

(* Faulty variant of transfer_tx: the owner is compared with from_ for     *)
(* the amount 0 too                                                        *)
transfer_tx_zero_owner(l, sender, from_, tx) ==
    LET sender_verify ==
            \/ from_ = sender
            \/ is_member(operators, from_, sender, tx.token_id)
            \/ (allow_self_transfer /\ sender = self_address)
    IN  IF ~sender_verify
            THEN [err |-> not_operator, ledger |-> l]
        ELSE IF tx.token_id \notin DOMAIN hashes
            THEN [err |-> token_undefined, ledger |-> l]
        ELSE IF ~(tx.amount <= 1)
            THEN [err |-> insufficient_balance, ledger |-> l]
        ELSE IF l[tx.token_id] # from_
            THEN [err |-> insufficient_balance, ledger |-> l]
        ELSE IF tx.amount = 1
            THEN [err |-> OK, ledger |-> [l EXCEPT ![tx.token_id] = tx.to_]]
        ELSE [err |-> OK, ledger |-> l]

(* Faulty variant of transfer_tx: an operator of anyone for the token may  *)
(* move it, whoever from_ is                                               *)
transfer_tx_operator_of_anyone(l, sender, from_, tx) ==
    LET sender_verify ==
            \/ from_ = sender
            \/ \E k \in operators :
                   k.operator = sender /\ k.token_id = tx.token_id
            \/ (allow_self_transfer /\ sender = self_address)
    IN  IF ~sender_verify
            THEN [err |-> not_operator, ledger |-> l]
        ELSE IF tx.token_id \notin DOMAIN hashes
            THEN [err |-> token_undefined, ledger |-> l]
        ELSE IF ~(tx.amount <= 1)
            THEN [err |-> insufficient_balance, ledger |-> l]
        ELSE IF tx.amount = 1
            THEN IF l[tx.token_id] # from_
                    THEN [err |-> insufficient_balance, ledger |-> l]
                    ELSE [err |-> OK,
                          ledger |-> [l EXCEPT ![tx.token_id] = tx.to_]]
        ELSE [err |-> OK, ledger |-> l]

(* Faulty variant of transfer_tx: no transfer while the contract is paused *)
transfer_tx_paused(l, sender, from_, tx) ==
    LET sender_verify ==
            \/ from_ = sender
            \/ is_member(operators, from_, sender, tx.token_id)
            \/ (allow_self_transfer /\ sender = self_address)
    IN  IF is_paused
            THEN [err |-> err_paused, ledger |-> l]
        ELSE IF ~sender_verify
            THEN [err |-> not_operator, ledger |-> l]
        ELSE IF tx.token_id \notin DOMAIN hashes
            THEN [err |-> token_undefined, ledger |-> l]
        ELSE IF ~(tx.amount <= 1)
            THEN [err |-> insufficient_balance, ledger |-> l]
        ELSE IF tx.amount = 1
            THEN IF l[tx.token_id] # from_
                    THEN [err |-> insufficient_balance, ledger |-> l]
                    ELSE [err |-> OK,
                          ledger |-> [l EXCEPT ![tx.token_id] = tx.to_]]
        ELSE [err |-> OK, ledger |-> l]

(* One tx of a transfer group, run on the ledger l left by the txs before it *)
transfer_tx(l, sender, from_, tx) ==
    LET sender_verify ==
            \/ from_ = sender
            \/ is_member(operators, from_, sender, tx.token_id)
            \/ (allow_self_transfer /\ sender = self_address)
    IN  IF ~sender_verify
            THEN [err |-> not_operator, ledger |-> l]
        ELSE IF tx.token_id \notin DOMAIN hashes
            THEN [err |-> token_undefined, ledger |-> l]
        ELSE IF ~(tx.amount <= 1)
            THEN [err |-> insufficient_balance, ledger |-> l]
        ELSE IF tx.amount = 1
            THEN IF l[tx.token_id] # from_
                    THEN [err |-> insufficient_balance, ledger |-> l]
                    ELSE [err |-> OK,
                          ledger |-> [l EXCEPT ![tx.token_id] = tx.to_]]
        ELSE [err |-> OK, ledger |-> l]

(* sp.for tx in transfer.txs *)
RECURSIVE transfer_txs(_, _, _, _)
transfer_txs(l, sender, from_, txs) ==
    IF txs = <<>> THEN [err |-> OK, ledger |-> l]
    ELSE LET r == transfer_tx(l, sender, from_, Head(txs))
         IN  IF r.err # OK THEN r
             ELSE transfer_txs(r.ledger, sender, from_, Tail(txs))

(* Faulty variant of transfer_batch: the last group runs first *)
RECURSIVE transfer_batch_reversed(_, _, _)
transfer_batch_reversed(l, sender, params) ==
    IF params = <<>> THEN [err |-> OK, ledger |-> l]
    ELSE LET r == transfer_batch_reversed(l, sender, Tail(params))
         IN  IF r.err # OK THEN r
             ELSE transfer_txs(r.ledger, sender, Head(params).from_,
                               Head(params).txs)

(* sp.for transfer in params *)
RECURSIVE transfer_batch(_, _, _)
transfer_batch(l, sender, params) ==
    IF params = <<>> THEN [err |-> OK, ledger |-> l]
    ELSE LET r == transfer_txs(l, sender, Head(params).from_, Head(params).txs)
         IN  IF r.err # OK THEN r
             ELSE transfer_batch(r.ledger, sender, Tail(params))

(* Faulty variant of transfer_commit: the legs run before a failure stay *)
transfer_commit_partial(r) == r.ledger

(* The ledger the call leaves: a failed call leaves the ledger it found *)
transfer_commit(r) == IF r.err = OK THEN r.ledger ELSE ledger

transfer(sender, params) ==
    LET r == transfer_batch(ledger, sender, params)
    IN  /\ op' = "transfer"
        /\ operations' = <<>>
        /\ result' = r.err
        /\ ledger' = transfer_commit(r)
        /\ UNCHANGED <<hashes, operators, all_tokens, price, max_editions,
                       script, base_uri, paused, locked, administrator,
                       balance, config, minted>>

----------------------------------------------------------------------------
(* FA2_core.balance_of, FA2_core.get_balance *)

(* f_process_request *)
f_process_request(req) ==
    IF req.token_id \notin DOMAIN hashes
        THEN [err |-> token_undefined]
        ELSE [err |-> OK,
              result |-> [request |-> [owner |-> req.owner,
                                       token_id |-> req.token_id],
                          balance |-> IF ledger[req.token_id] = req.owner
                                          THEN 1 ELSE 0]]

(* Faulty variant of requests_map: the responses come in reverse order *)
RECURSIVE requests_map_reversed(_)
requests_map_reversed(requests) ==
    IF requests = <<>> THEN [err |-> OK, responses |-> <<>>]
    ELSE LET r == f_process_request(Head(requests))
             rest == requests_map_reversed(Tail(requests))
         IN  IF r.err # OK THEN [err |-> r.err, responses |-> <<>>]
             ELSE IF rest.err # OK THEN rest
             ELSE [err |-> OK, responses |-> rest.responses \o <<r.result>>]

(* params.requests.map(f_process_request) *)
RECURSIVE requests_map(_)
requests_map(requests) ==
    IF requests = <<>> THEN [err |-> OK, responses |-> <<>>]
    ELSE LET r == f_process_request(Head(requests))
             rest == requests_map(Tail(requests))
         IN  IF r.err # OK THEN [err |-> r.err, responses |-> <<>>]
             ELSE IF rest.err # OK THEN rest
             ELSE [err |-> OK, responses |-> <<r.result>> \o rest.responses]

(* The error of the call and the operations it emits *)
balance_of_run(params) ==
    LET res == requests_map(params.requests)
    IN  IF res.err # OK
            THEN [err |-> res.err, operations |-> <<>>]
            ELSE [err |-> OK,
                  operations |-> <<sp_transfer(res.responses, 0,
                                               params.callback)>>]

balance_of(params) ==
    LET r == balance_of_run(params)
    IN  /\ op' = "balance_of"
        /\ result' = r.err
        /\ operations' = r.operations
        /\ UNCHANGED <<storage, config, minted>>

(* Faulty variant of get_balance: a token that is not minted has balance 0 *)
get_balance_absent_zero(req) ==
    IF req.token_id \notin DOMAIN hashes
        THEN [err |-> OK, result |-> 0]
        ELSE [err |-> OK,
              result |-> IF ledger[req.token_id] = req.owner THEN 1 ELSE 0]

get_balance(req) ==
    IF req.token_id \notin DOMAIN hashes
        THEN [err |-> token_undefined]
        ELSE [err |-> OK,
              result |-> IF ledger[req.token_id] = req.owner THEN 1 ELSE 0]

----------------------------------------------------------------------------
(* FA2_core.update_operators *)

(* Faulty variant of update_operator: the operator of an entry may also   *)
(* submit it                                                               *)
update_operator_by_operator(s, sender, update) ==
    IF update.owner # sender /\ update.operator # sender
        THEN [err |-> not_owner, operators |-> s]
    ELSE IF update.kind = "add_operator"
        THEN [err |-> OK,
              operators |-> s \cup {make_key(update.owner, update.operator,
                                              update.token_id)}]
    ELSE [err |-> OK,
          operators |-> s \ {make_key(update.owner, update.operator,
                                      update.token_id)}]

(* Faulty variant of update_operator: removing an absent key fails *)
update_operator_strict_remove(s, sender, update) ==
    IF update.owner # sender
        THEN [err |-> not_owner, operators |-> s]
    ELSE IF update.kind = "add_operator"
        THEN [err |-> OK,
              operators |-> s \cup {make_key(update.owner, update.operator,
                                              update.token_id)}]
    ELSE IF ~is_member(s, update.owner, update.operator, update.token_id)
        THEN [err |-> not_operator, operators |-> s]
    ELSE [err |-> OK,
          operators |-> s \ {make_key(update.owner, update.operator,
                                      update.token_id)}]

(* Faulty variant of update_operator: a removal drops the operator for     *)
(* every token of the owner                                                *)
update_operator_remove_all(s, sender, update) ==
    IF update.owner # sender
        THEN [err |-> not_owner, operators |-> s]
    ELSE IF update.kind = "add_operator"
        THEN [err |-> OK,
              operators |-> s \cup {make_key(update.owner, update.operator,
                                              update.token_id)}]
    ELSE [err |-> OK,
          operators |-> {k \in s : ~(k.owner = update.owner
                                      /\ k.operator = update.operator)}]

(* One add_operator / remove_operator entry, run on the set s *)
update_operator(s, sender, update) ==
    IF update.owner # sender
        THEN [err |-> not_owner, operators |-> s]
    ELSE IF update.kind = "add_operator"
        THEN [err |-> OK,
              operators |-> s \cup {make_key(update.owner, update.operator,
                                              update.token_id)}]
    ELSE [err |-> OK,
          operators |-> s \ {make_key(update.owner, update.operator,
                                      update.token_id)}]

RECURSIVE update_operators_list(_, _, _)
update_operators_list(s, sender, params) ==
    IF params = <<>> THEN [err |-> OK, operators |-> s]
    ELSE LET r == update_operator(s, sender, Head(params))
         IN  IF r.err # OK THEN r
             ELSE update_operators_list(r.operators, sender, Tail(params))

update_operators_run(sender, params) ==
    IF support_operator
        THEN update_operators_list(operators, sender, params)
        ELSE [err |-> operators_unsupported, operators |-> operators]

(* Faulty variant of update_operators_commit: the entries run before a     *)
(* failure stay                                                            *)
update_operators_commit_partial(r) == r.operators

(* The set the call leaves: a failed call leaves the set it found *)
update_operators_commit(r) == IF r.err = OK THEN r.operators ELSE operators

update_operators(sender, params) ==
    LET r == update_operators_run(sender, params)
    IN  /\ op' = "update_operators"
        /\ operations' = <<>>
        /\ result' = r.err
        /\ operators' = update_operators_commit(r)
        /\ UNCHANGED <<ledger, hashes, all_tokens, price, max_editions,
                       script, base_uri, paused, locked, administrator,
                       balance, config, minted>>

----------------------------------------------------------------------------
(* FA2_core.set_mint_parameters *)

(* Faulty variant of set_mint_parameters_err: the new ceiling is not       *)
(* compared with all_tokens                                                *)
set_mint_parameters_err_any_ceiling(sender, params) ==
    IF ~is_administrator(sender) THEN not_admin
    ELSE IF ~(all_tokens <= 1) THEN sale_started
    ELSE OK

(* Faulty variant of set_mint_parameters_err: the sale has started with    *)
(* the first token                                                         *)
set_mint_parameters_err_first_sale(sender, params) ==
    IF ~is_administrator(sender) THEN not_admin
    ELSE IF ~(all_tokens <= 0) THEN sale_started
    ELSE IF ~(all_tokens <= params.max_editions) THEN bad_amount
    ELSE OK

set_mint_parameters_err(sender, params) ==
    IF ~is_administrator(sender) THEN not_admin
    ELSE IF ~(all_tokens <= 1) THEN sale_started
    ELSE IF ~(all_tokens <= params.max_editions) THEN bad_amount
    ELSE OK

(* The price and the ceiling the call leaves *)
set_mint_parameters_run(sender, params) ==
    LET e == set_mint_parameters_err(sender, params)
    IN  [err |-> e,
         max_editions |-> IF e = OK THEN params.max_editions ELSE max_editions,
         price |-> IF e = OK THEN params.price ELSE price]

set_mint_parameters(sender, params) ==
    LET r == set_mint_parameters_run(sender, params)
    IN  /\ op' = "set_mint_parameters"
        /\ operations' = <<>>
        /\ result' = r.err
        /\ max_editions' = r.max_editions
        /\ price' = r.price
        /\ UNCHANGED <<ledger, hashes, operators, all_tokens, script, base_uri,
                       paused, locked, administrator, balance, config, minted>>

----------------------------------------------------------------------------
(* FA2_administrator, FA2_pause, FA2_lock *)

set_administrator_err(sender) ==
    IF is_administrator(sender) THEN OK ELSE not_admin

set_administrator(sender, params) ==
    LET e == set_administrator_err(sender)
    IN  /\ op' = "set_administrator"
        /\ operations' = <<>>
        /\ result' = e
        /\ administrator' = IF e = OK THEN params ELSE administrator
        /\ UNCHANGED <<ledger, hashes, operators, all_tokens, price,
                       max_editions, script, base_uri, paused, locked,
                       balance, config, minted>>

set_pause_err(sender) ==
    IF is_administrator(sender) THEN OK ELSE not_admin

(* Faulty variant of set_pause_value: paused is never reset *)
set_pause_value_sticky(sender, params) ==
    IF set_pause_err(sender) = OK THEN (paused \/ params) ELSE paused

(* The value of paused the call leaves *)
set_pause_value(sender, params) ==
    IF set_pause_err(sender) = OK THEN params ELSE paused

set_pause(sender, params) ==
    /\ op' = "set_pause"
    /\ operations' = <<>>
    /\ result' = set_pause_err(sender)
    /\ paused' = set_pause_value(sender, params)
    /\ UNCHANGED <<ledger, hashes, operators, all_tokens, price,
                   max_editions, script, base_uri, locked, administrator,
                   balance, config, minted>>

lock_err(sender) ==
    IF is_administrator(sender) THEN OK ELSE not_admin

(* Faulty variant of lock_value: a second lock call unlocks *)
lock_value_toggle(sender) ==
    IF lock_err(sender) = OK THEN ~locked ELSE locked

(* The value of locked the call leaves *)
lock_value(sender) ==
    IF lock_err(sender) = OK THEN TRUE ELSE locked

lock(sender) ==
    /\ op' = "lock"
    /\ operations' = <<>>
    /\ result' = lock_err(sender)
    /\ locked' = lock_value(sender)
    /\ UNCHANGED <<ledger, hashes, operators, all_tokens, price,
                   max_editions, script, base_uri, paused, administrator,
                   balance, config, minted>>

----------------------------------------------------------------------------
(* FA2_mint.mint *)

(* Faulty variant of token_id_set_add: the counter skips an id *)
token_id_set_add_skip(totalTokens, tokenID) ==
    IF totalTokens # tokenID
        THEN [err |-> not_consecutive, all_tokens |-> totalTokens]
        ELSE [err |-> OK, all_tokens |-> tokenID + 2]

(* Token_id_set.add *)
token_id_set_add(totalTokens, tokenID) ==
    IF totalTokens # tokenID
        THEN [err |-> not_consecutive, all_tokens |-> totalTokens]
        ELSE [err |-> OK, all_tokens |-> tokenID + 1]

(* Faulty variant of mint_one: the hash is not stored *)
mint_one_no_hash(st, sender, now) ==
    LET token_id == st.all_tokens
        added == token_id_set_add(st.all_tokens, token_id)
    IN  IF ~(token_id < max_editions)
            THEN [st EXCEPT !.err = max_editions_reached]
        ELSE IF added.err # OK
            THEN [st EXCEPT !.err = added.err]
        ELSE [err |-> OK,
              ledger |-> [k \in DOMAIN st.ledger \cup {token_id} |->
                             IF k = token_id THEN sender ELSE st.ledger[k]],
              hashes |-> st.hashes,
              all_tokens |-> added.all_tokens]

(* Faulty variant of mint_one: every token of the call gets the hash of    *)
(* the first id of the call                                                *)
mint_one_same_hash(st, sender, now) ==
    LET token_id == st.all_tokens
        token_hash == keccak(now, sender, all_tokens)
        added == token_id_set_add(st.all_tokens, token_id)
    IN  IF ~(token_id < max_editions)
            THEN [st EXCEPT !.err = max_editions_reached]
        ELSE IF added.err # OK
            THEN [st EXCEPT !.err = added.err]
        ELSE [err |-> OK,
              ledger |-> [k \in DOMAIN st.ledger \cup {token_id} |->
                             IF k = token_id THEN sender ELSE st.ledger[k]],
              hashes |-> [k \in DOMAIN st.hashes \cup {token_id} |->
                             IF k = token_id THEN token_hash ELSE st.hashes[k]],
              all_tokens |-> added.all_tokens]

(* Faulty variant of mint_one: the sender becomes the owner of every token *)
mint_one_takes_all(st, sender, now) ==
    LET token_id == st.all_tokens
        token_hash == keccak(now, sender, token_id)
        added == token_id_set_add(st.all_tokens, token_id)
    IN  IF ~(token_id < max_editions)
            THEN [st EXCEPT !.err = max_editions_reached]
        ELSE IF added.err # OK
            THEN [st EXCEPT !.err = added.err]
        ELSE [err |-> OK,
              ledger |-> [k \in DOMAIN st.ledger \cup {token_id} |-> sender],
              hashes |-> [k \in DOMAIN st.hashes \cup {token_id} |->
                             IF k = token_id THEN token_hash ELSE st.hashes[k]],
              all_tokens |-> added.all_tokens]

(* One iteration of the issuance loop on the registry st *)
mint_one(st, sender, now) ==
    LET token_id == st.all_tokens
        token_hash == keccak(now, sender, token_id)
        added == token_id_set_add(st.all_tokens, token_id)
    IN  IF ~(token_id < max_editions)
            THEN [st EXCEPT !.err = max_editions_reached]
        ELSE IF added.err # OK
            THEN [st EXCEPT !.err = added.err]
        ELSE [err |-> OK,
              ledger |-> [k \in DOMAIN st.ledger \cup {token_id} |->
                             IF k = token_id THEN sender ELSE st.ledger[k]],
              hashes |-> [k \in DOMAIN st.hashes \cup {token_id} |->
                             IF k = token_id THEN token_hash ELSE st.hashes[k]],
              all_tokens |-> added.all_tokens]

(* sp.while i > 0 *)
RECURSIVE mint_loop(_, _, _, _)
mint_loop(st, i, sender, now) ==
    IF ~(i > 0) THEN st
    ELSE LET r == mint_one(st, sender, now)
         IN  IF r.err # OK THEN r
             ELSE mint_loop(r, i - 1, sender, now)

(* Faulty variant of mint_precheck: an overpayment is accepted *)
mint_precheck_overpaid(amount, sp_amount) ==
    IF ~(amount > 0) THEN bad_amount
    ELSE IF is_paused THEN err_paused
    ELSE IF sp_amount < price * amount THEN bad_value
    ELSE IF ~(all_tokens + amount <= max_editions) THEN max_editions_reached
    ELSE OK

(* Faulty variant of mint_precheck: the last edition cannot be minted *)
mint_precheck_strict(amount, sp_amount) ==
    IF ~(amount > 0) THEN bad_amount
    ELSE IF is_paused THEN err_paused
    ELSE IF sp_amount # price * amount THEN bad_value
    ELSE IF ~(all_tokens + amount < max_editions) THEN max_editions_reached
    ELSE OK

(* Faulty variant of mint_precheck: the amount is not compared with the    *)
(* room left under max_editions                                            *)
mint_precheck_no_ceiling(amount, sp_amount) ==
    IF ~(amount > 0) THEN bad_amount
    ELSE IF is_paused THEN err_paused
    ELSE IF sp_amount # price * amount THEN bad_value
    ELSE OK

(* The checks made before the loop *)
mint_precheck(amount, sp_amount) ==
    IF ~(amount > 0) THEN bad_amount
    ELSE IF is_paused THEN err_paused
    ELSE IF sp_amount # price * amount THEN bad_value
    ELSE IF ~(all_tokens + amount <= max_editions) THEN max_editions_reached
    ELSE OK

mint_run(sender, amount, sp_amount, now) ==
    LET st == [err |-> OK, ledger |-> ledger, hashes |-> hashes,
               all_tokens |-> all_tokens]
        e == mint_precheck(amount, sp_amount)
    IN  IF e # OK THEN [st EXCEPT !.err = e]
        ELSE mint_loop(st, amount, sender, now)

(* The registry the call leaves: a failed call leaves the one it found *)
mint_commit(r) ==
    IF r.err = OK THEN r
    ELSE [err |-> r.err, ledger |-> ledger, hashes |-> hashes,
          all_tokens |-> all_tokens]

mint(sender, amount, sp_amount, now) ==
    LET r == mint_commit(mint_run(sender, amount, sp_amount, now))
    IN  /\ op' = "mint"
        /\ operations' = <<>>
        /\ result' = r.err
        /\ ledger' = r.ledger
        /\ hashes' = r.hashes
        /\ all_tokens' = r.all_tokens
        /\ balance' = IF r.err = OK THEN balance + sp_amount ELSE balance
        /\ minted' = IF r.err = OK THEN minted + amount ELSE minted
        /\ UNCHANGED <<operators, price, max_editions, script, base_uri,
                       paused, locked, administrator, config>>

----------------------------------------------------------------------------
(* FA2_script.set_script, FA2_base_uri.set_base_uri *)

set_script_err(sender) ==
    IF is_locked THEN err_locked
    ELSE IF ~is_administrator(sender) THEN not_admin
    ELSE OK

set_script(sender, params) ==
    LET e == set_script_err(sender)
    IN  /\ op' = "set_script"
        /\ operations' = <<>>
        /\ result' = e
        /\ script' = IF e = OK THEN params ELSE script
        /\ UNCHANGED <<ledger, hashes, operators, all_tokens, price,
                       max_editions, base_uri, paused, locked, administrator,
                       balance, config, minted>>

set_base_uri_err(sender) ==
    IF is_locked THEN err_locked
    ELSE IF ~is_administrator(sender) THEN not_admin
    ELSE OK

set_base_uri(sender, params) ==
    LET e == set_base_uri_err(sender)
    IN  /\ op' = "set_base_uri"
        /\ operations' = <<>>
        /\ result' = e
        /\ base_uri' = IF e = OK THEN params ELSE base_uri
        /\ UNCHANGED <<ledger, hashes, operators, all_tokens, price,
                       max_editions, script, paused, locked, administrator,
                       balance, config, minted>>

----------------------------------------------------------------------------
(* FA2_token_metadata.token_metadata and the views of FA2 *)

make_metadata(symbol, name, decimals, token_hash, uri) ==
    [decimals |-> decimals, name |-> name, symbol |-> symbol,
     token_hash |-> token_hash, uri |-> uri]

token_metadata(token_id) ==
    IF ~(token_id < all_tokens)
        THEN [err |-> token_undefined]
        ELSE [err |-> OK,
              result |-> [token_id |-> token_id,
                          token_info |-> make_metadata("BOB",
                              "Blocks on Blocks", 0, hashes[token_id],
                              base_uri \o bytes_of_nat(token_id))]]

count_tokens == all_tokens

does_token_exist(tok) == tok \in DOMAIN hashes

total_supply(tok) ==
    IF ~(tok < max_editions)
        THEN [err |-> token_undefined]
        ELSE [err |-> OK, result |-> 1]

is_operator(query) ==
    is_member(operators, query.owner, query.operator, query.token_id)

----------------------------------------------------------------------------
(* mutez_transfer, the transfer_mutez entry point *)

mutez_transfer_err(sender, params) ==
    IF sender # administrator THEN wrong_condition
    ELSE IF ~(params.amount <= balance) THEN wrong_condition
    ELSE OK

(* The balance the call leaves and the operations it emits *)
mutez_transfer_run(sender, params) ==
    LET e == mutez_transfer_err(sender, params)
    IN  [err |-> e,
         balance |-> IF e = OK THEN balance - params.amount ELSE balance,
         operations |-> IF e = OK
                            THEN <<sp_transfer(<<>>, params.amount,
                                               params.destination)>>
                            ELSE <<>>]

transfer_mutez(sender, params) ==
    LET r == mutez_transfer_run(sender, params)
    IN  /\ op' = "transfer_mutez"
        /\ result' = r.err
        /\ balance' = r.balance
        /\ operations' = r.operations
        /\ UNCHANGED <<ledger, hashes, operators, all_tokens, price,
                       max_editions, script, base_uri, paused, locked,
                       administrator, config, minted>>

----------------------------------------------------------------------------
(* Inputs of the calls *)

Tx(to_, token_id, amount) == [to_ |-> to_, token_id |-> token_id, amount |-> amount]
Group(from_, txs) == [from_ |-> from_, txs |-> txs]

(* A batch of one group of one tx *)
OneLeg == {<<Group(f, <<Tx(t, i, a)>>)>> :
              f \in Address, t \in Address, i \in TokenIds, a \in TxAmounts}

(* sp.now never runs backwards: a mint is stamped no earlier than the mints before it *)
latest(S) == IF S = {} THEN 0 ELSE CHOOSE y \in S : \A z \in S : y >= z
clock == latest({hashes[k][2] : k \in DOMAIN hashes})

Users == Address \ {"admin"}

(* The address of the contract that receives the balance_of callbacks *)
consumer == "consumer"
Request(owner, token_id) == [owner |-> owner, token_id |-> token_id]

(* The balance_of call for one owner and one token *)
OneRequest(owner, token_id) ==
    [requests |-> <<Request(owner, token_id)>>, callback |-> consumer]

----------------------------------------------------------------------------
(* FA2.__init__ / FA2_core.__init__ *)

InitStorage ==
    /\ ledger = <<>>
    /\ hashes = <<>>
    /\ operators = {}
    /\ all_tokens = 0
    /\ price = config_price
    /\ max_editions = config_max_editions
    /\ script = ""
    /\ base_uri = <<47>>
    /\ paused = FALSE
    /\ locked = FALSE
    /\ administrator = "admin"
    /\ balance = 0
    /\ operations = <<>>
    /\ op = "origination"
    /\ result = OK
    /\ minted = 0

(* FA2_config defaults *)
Init ==
    /\ InitStorage
    /\ support_operator = TRUE
    /\ allow_self_transfer = FALSE

----------------------------------------------------------------------------
(* Issuance: anyone mints with any amount and payment, the administrator  *)
(* pauses and sets the mint parameters, owners move their tokens.         *)

MintNext ==
    \/ \E sender \in Users :
           transfer(sender, <<Group(sender, <<Tx("admin", 0, 1)>>)>>)
    \/ \E kind \in {"add_operator", "remove_operator"} :
           update_operators("alice", <<[kind |-> kind, owner |-> "alice",
                                        operator |-> "bob", token_id |-> 0]>>)
    \/ \E sender \in Address, p \in Prices, m \in 0 .. MaxSupply :
           set_mint_parameters(sender, [price |-> p, max_editions |-> m])
    \/ \E sender \in Users, params \in Address : set_administrator(sender, params)
    \/ \E sender \in Address, params \in BOOLEAN : set_pause(sender, params)
    \/ \E sender \in Users : lock(sender)
    \/ \E sender \in Users, amount \in MintAmounts, sp_amount \in Payments,
          now \in {t \in Timestamps : t >= clock} :
           mint(sender, amount, sp_amount, now)
    \/ \E sender \in Users, params \in Scripts : set_script(sender, params)
    \/ \E sender \in Users, params \in BaseUris : set_base_uri(sender, params)
    \/ \E sender \in Users, amount \in Payments :
           transfer_mutez(sender, [destination |-> sender, amount |-> amount])
    \/ balance_of(OneRequest("alice", 0))

SpecMint == Init /\ [][MintNext]_vars

----------------------------------------------------------------------------
(* Transfers: any configuration; anyone, the contract itself included,    *)
(* sends batches of one or two legs; users grant and revoke operators,    *)
(* in lists of one or two entries;                                        *)
(* one user mints; the administrator stays away.                          *)

InitConfigs ==
    /\ InitStorage
    /\ support_operator \in BOOLEAN
    /\ allow_self_transfer \in BOOLEAN

Callers == Address \cup {self_address}

(* The legs of the two-leg batches *)
Legs == {<<f, Tx(t, i, 1)>> : f \in Users, t \in Address, i \in {0, 1}}

(* A batch of two groups of one tx each *)
TwoLegs == {<<Group(a[1], <<a[2]>>), Group(b[1], <<b[2]>>)>> :
               a \in Legs, b \in Legs}

OperatorUpdates ==
    {u \in [kind : {"add_operator", "remove_operator"}, owner : Users,
            operator : Users, token_id : {0, 1}] : u.owner # u.operator}

(* The removal of the key of the entry u *)
Revoke(u) == [u EXCEPT !.kind = "remove_operator"]

(* Lists of one entry, of an entry followed by the removal of its key, of  *)
(* a removal followed by the grant of its key, and of two grants of        *)
(* different owners                                                        *)
UpdateCalls ==
    {<<u>> : u \in OperatorUpdates}
        \cup {<<u, Revoke(u)>> : u \in OperatorUpdates}
        \cup {<<Revoke(u), u>> : u \in OperatorUpdates}
        \cup {l \in {<<u, v>> : u \in OperatorUpdates, v \in OperatorUpdates} :
                 /\ l[1].kind = "add_operator" /\ l[2].kind = "add_operator"
                 /\ l[1].owner # l[2].owner}

TransferNext ==
    \/ \E sender \in Callers, params \in OneLeg : transfer(sender, params)
    \/ \E sender \in Users, params \in TwoLegs : transfer(sender, params)
    \/ \E sender \in Address, params \in UpdateCalls :
           update_operators(sender, params)
    \/ \E sender \in Users, p \in Prices :
           set_mint_parameters(sender, [price |-> p, max_editions |-> 0])
    \/ \E sender \in Users : set_administrator(sender, sender)
    \/ \E sender \in Users : set_pause(sender, TRUE)
    \/ \E sender \in Users : lock(sender)
    \/ \E amount \in {1, 2} : mint("alice", amount, price * amount, 0)
    \/ \E sender \in Users, params \in Scripts : set_script(sender, params)
    \/ \E sender \in Users, params \in BaseUris : set_base_uri(sender, params)
    \/ \E sender \in Users :
           transfer_mutez(sender, [destination |-> sender, amount |-> 0])
    \/ balance_of(OneRequest("alice", 0))

SpecTransfer == InitConfigs /\ [][TransferNext]_vars

----------------------------------------------------------------------------
(* Governance: anyone calls every administrative entry point, the          *)
(* administrator rotates, pauses, locks, rewrites script and base URI and  *)
(* withdraws; one user mints single tokens, grants an operator, and she or  *)
(* the operator moves the first token.                                     *)

GovNext ==
    \/ \E sender \in Users :
           transfer(sender, <<Group("alice", <<Tx("bob", 0, 1)>>)>>)
    \/ \E params \in {<<>>, <<[kind |-> "add_operator", owner |-> "alice",
                               operator |-> "bob", token_id |-> 0]>>} :
           update_operators("alice", params)
    \/ \E sender \in Address :
           set_mint_parameters(sender, [price |-> price,
                                        max_editions |-> max_editions])
    \/ \E sender \in Address, params \in Address : set_administrator(sender, params)
    \/ \E sender \in Address, params \in BOOLEAN : set_pause(sender, params)
    \/ \E sender \in Address : lock(sender)
    \/ mint("alice", 1, price, 0)
    \/ \E sender \in Address, params \in Scripts : set_script(sender, params)
    \/ \E sender \in Address, params \in BaseUris : set_base_uri(sender, params)
    \/ \E sender \in Address, amount \in 0 .. MaxSupply :
           transfer_mutez(sender, [destination |-> sender, amount |-> amount])
    \/ balance_of(OneRequest("alice", 0))

SpecGov == Init /\ [][GovNext]_vars

----------------------------------------------------------------------------
(* Queries: two users mint single tokens and move them, one grants and     *)
(* revokes an operator, the administrator moves the ceiling and rewrites   *)
(* the base URI, and anyone asks for the balances of up to two owners and  *)
(* tokens, minted or not.                                                  *)

Requests == [owner : Address, token_id : TokenIds]

(* The request lists of a balance_of call *)
RequestLists ==
    {<<>>} \cup {<<q>> : q \in Requests}
           \cup {<<q, r>> : q \in Requests, r \in Requests}

QueryNext ==
    \/ \E sender \in Users, from_ \in Users, to_ \in Address, token_id \in {0, 1} :
           transfer(sender, <<Group(from_, <<Tx(to_, token_id, 1)>>)>>)
    \/ \E kind \in {"add_operator", "remove_operator"} :
           update_operators("alice", <<[kind |-> kind, owner |-> "alice",
                                        operator |-> "bob", token_id |-> 0]>>)
    \/ \E sender \in Address, m \in 1 .. MaxSupply :
           set_mint_parameters(sender, [price |-> price, max_editions |-> m])
    \/ \E sender \in Users : set_administrator(sender, sender)
    \/ \E sender \in Users : set_pause(sender, TRUE)
    \/ \E sender \in Users : lock(sender)
    \/ \E sender \in Users : mint(sender, 1, price, 0)
    \/ \E sender \in Users, params \in Scripts : set_script(sender, params)
    \/ \E sender \in Address, params \in BaseUris : set_base_uri(sender, params)
    \/ \E sender \in Users :
           transfer_mutez(sender, [destination |-> sender, amount |-> 0])
    \/ \E requests \in RequestLists :
           balance_of([requests |-> requests, callback |-> consumer])

SpecQuery == Init /\ [][QueryNext]_vars

----------------------------------------------------------------------------
(* A long sale: the administrator raises the ceiling before the sale and   *)
(* sets the base URI, alice mints the tokens one by one.                   *)

UriNext ==
    \/ set_mint_parameters("admin", [price |-> price, max_editions |-> MaxIds])
    \/ mint("alice", 1, price, 0)
    \/ \E params \in BaseUris : set_base_uri("admin", params)

SpecUri == Init /\ [][UriNext]_vars

----------------------------------------------------------------------------
(* Properties of issuance *)

Issued == 0 .. (all_tokens - 1)

(* The ids a mint outcome r adds to the registry *)
NewIds(r) == DOMAIN r.ledger \ DOMAIN ledger

(* The storage is left as found *)
StorageUnchanged == UNCHANGED storage

(* A failed mint leaves the storage as it found it *)
FailedMintChangesNothing ==
    (op' = "mint" /\ result' # OK) => StorageUnchanged

(* C1: all_tokens is the sum of the amounts of the mints that succeeded,   *)
(* the ids issued are exactly 0 .. all_tokens - 1, each issued once (the   *)
(* token hashed as id k sits at key k), and in every state a mint that     *)
(* succeeds with amount n adds the n ids from all_tokens on and leaves     *)
(* all_tokens + n, while a failing mint leaves all_tokens.                 *)
C1_TotalIssued ==
    /\ all_tokens = minted
    /\ DOMAIN ledger = Issued
    /\ \A k \in DOMAIN hashes : hashes[k][4] = k
    /\ \A sender \in Address, amount \in MintAmounts, sp_amount \in Payments,
          now \in Timestamps :
           LET r == mint_commit(mint_run(sender, amount, sp_amount, now))
           IN  IF r.err = OK
                   THEN /\ r.all_tokens = all_tokens + amount
                        /\ NewIds(r) = all_tokens .. (all_tokens + amount - 1)
                   ELSE r.all_tokens = all_tokens

(* Two mints have succeeded, the second one after the first *)
C1_Witness ==
    /\ op = "mint" /\ result = OK
    /\ all_tokens = 2 /\ minted = 2
    /\ hashes[0][3] # hashes[1][3]

(* does_token_exist / transfer / balance_of test, and token_metadata test *)
hashes_contains(tok) == tok \in DOMAIN hashes
token_id_set_contains(tok) == tok < all_tokens

(* C2: ledger and hashes have the same keys, the ids below all_tokens, so  *)
(* the owner of an id is defined iff the id is below all_tokens and the    *)
(* two existence tests agree on every id.                                  *)
C2_KeySets ==
    /\ DOMAIN ledger = DOMAIN hashes
    /\ DOMAIN hashes = Issued
    /\ \A tok \in TokenIds : hashes_contains(tok) <=> token_id_set_contains(tok)

(* One token issued, the next id not yet *)
C2_Witness ==
    /\ op = "mint" /\ result = OK
    /\ hashes_contains(0) /\ ~hashes_contains(1)
    /\ 0 \in DOMAIN ledger /\ 1 \notin DOMAIN ledger

(* C3 as stated: all_tokens never exceeds max_editions, and a              *)
(* set_mint_parameters call of the administrator with a ceiling below      *)
(* all_tokens fails with BAD_QUANTITY.                                     *)
C3_AsStated ==
    /\ all_tokens <= max_editions
    /\ \A p \in Prices, m \in 0 .. MaxSupply :
           m < all_tokens =>
               set_mint_parameters_err(administrator,
                   [price |-> p, max_editions |-> m]) = bad_amount

(* C3 amended: all_tokens never exceeds max_editions; set_mint_parameters  *)
(* with a ceiling below all_tokens never succeeds: called by the           *)
(* administrator it fails with BAD_QUANTITY while all_tokens <= 1 and with *)
(* SALE_STARTED from then on, called by anyone else with NOT_ADMIN.        *)
C3_Ceiling ==
    /\ all_tokens <= max_editions
    /\ \A sender \in Address, p \in Prices, m \in 0 .. MaxSupply :
           m < all_tokens =>
               set_mint_parameters_err(sender, [price |-> p, max_editions |-> m])
                   = IF sender # administrator THEN not_admin
                     ELSE IF all_tokens <= 1 THEN bad_amount
                     ELSE sale_started

(* The administrator has just been refused a ceiling below all_tokens,     *)
(* with the ceiling reached                                                *)
C3_Witness ==
    /\ op = "set_mint_parameters" /\ result = bad_amount
    /\ all_tokens = 1 /\ max_editions = 1

(* C6: a token hash is written by the mint that issues the id, as          *)
(* keccak(now, sender, id) of that call, hence the hashes of one call      *)
(* differ only in the id; no step changes or removes a hash once written,  *)
(* and only mint adds one.                                                 *)
C6_MintWritesHash ==
    \A sender \in Address, amount \in MintAmounts, sp_amount \in Payments,
       now \in Timestamps :
        LET r == mint_commit(mint_run(sender, amount, sp_amount, now))
        IN  /\ \A k \in NewIds(r) : r.hashes[k] = keccak(now, sender, k)
            /\ \A k \in DOMAIN hashes :
                   k \in DOMAIN r.hashes /\ r.hashes[k] = hashes[k]

C6_HashKept ==
    /\ \A k \in DOMAIN hashes : k \in DOMAIN hashes' /\ hashes'[k] = hashes[k]
    /\ DOMAIN hashes' # DOMAIN hashes => op' = "mint"

C6_Commitment == []C6_MintWritesHash /\ [][C6_HashKept]_vars

(* Token 0 was minted by one address at time 0; it has changed hands and   *)
(* later mints and calls have happened                                     *)
C6_Witness ==
    /\ all_tokens = 2
    /\ hashes[0] = keccak(0, "alice", 0)
    /\ hashes[1] = keccak(1, "bob", 1)
    /\ ledger[0] = "admin"
    /\ op = "set_pause" /\ result = OK

C7_Payment ==
    \A sender \in Address, amount \in MintAmounts, sp_amount \in Payments,
       now \in Timestamps :
        LET r == mint_run(sender, amount, sp_amount, now)
        IN  /\ sp_amount # price * amount =>
                /\ r.err # OK
                /\ (amount > 0 /\ ~paused) => r.err = bad_value
            /\ r.err = OK =>
                /\ sp_amount = price * amount
                /\ NewIds(r) # {}
                /\ \A k \in NewIds(r) : r.ledger[k] = sender

C8_Room ==
    \A sender \in Address, amount \in MintAmounts, sp_amount \in Payments,
       now \in Timestamps :
        LET r == mint_commit(mint_run(sender, amount, sp_amount, now))
        IN  /\ (amount > 0 /\ ~paused /\ sp_amount = price * amount) =>
                /\ r.err = max_editions_reached
                       <=> all_tokens + amount > max_editions
                /\ r.err \in {OK, max_editions_reached}
            /\ r.err = max_editions_reached =>
                /\ r.all_tokens = all_tokens
                /\ r.ledger = ledger
                /\ r.hashes = hashes
            /\ all_tokens = max_editions => r.err # OK

C8_MaxEditions == []C8_Room /\ [][FailedMintChangesNothing]_vars

(* A mint of one token has just failed on the ceiling, which was reached   *)
C8_Witness ==
    /\ op = "mint" /\ result = max_editions_reached
    /\ all_tokens = max_editions /\ all_tokens = 2

(* C9: while paused, every mint of a positive amount fails with PAUSED and *)
(* changes nothing.  In every state the administrator can set paused to    *)
(* either value, and on the unpaused contract a mint of a positive amount  *)
(* that is paid exactly and fits under max_editions succeeds.              *)
C9_Gate ==
    /\ \A sender \in Address, amount \in MintAmounts, sp_amount \in Payments,
          now \in Timestamps :
           LET r == mint_commit(mint_run(sender, amount, sp_amount, now))
           IN  amount > 0 =>
                   /\ paused => r.err = err_paused
                   /\ (/\ ~paused
                       /\ sp_amount = price * amount
                       /\ all_tokens + amount <= max_editions) => r.err = OK
    /\ \A params \in BOOLEAN :
           /\ set_pause_err(administrator) = OK
           /\ set_pause_value(administrator, params) = params

C9_Reversible ==
    (op' = "set_pause" /\ result' = OK) => UNCHANGED <<
        ledger, hashes, operators, all_tokens, price, max_editions, script,
        base_uri, locked, administrator, balance>>

C9_Pause ==
    /\ []C9_Gate
    /\ [][FailedMintChangesNothing]_vars
    /\ [][C9_Reversible]_vars

(* After a first token was minted the contract was paused, and a mint     *)
(* has just been refused                                                   *)
C9_Witness ==
    /\ op = "mint" /\ result = err_paused /\ paused
    /\ all_tokens = 1

----------------------------------------------------------------------------
(* Properties of transfers *)

TransferErrors == {not_operator, token_undefined, insufficient_balance}

(* A failed transfer leaves the storage as it found it *)
FailedTransferChangesNothing ==
    (op' = "transfer" /\ result' # OK) => StorageUnchanged

(* sender may move the tokens of from_ *)
Authorized(sender, from_, token_id) ==
    \/ sender = from_
    \/ [owner |-> from_, operator |-> sender, token_id |-> token_id]
           \in operators
    \/ (allow_self_transfer /\ sender = self_address)

Owns(from_, token_id) ==
    token_id \in DOMAIN ledger /\ ledger[token_id] = from_

(* C4: a transfer of one leg (from_, to_, token_id, 1) succeeds iff the    *)
(* sender is from_, or an operator of from_ for token_id, or the contract  *)
(* itself with self-transfer allowed, and from_ owns token_id; it then     *)
(* makes to_ the owner of token_id; otherwise it fails and changes nothing.*)
C4_OneLeg ==
    \A sender \in Callers, from_ \in Address, to_ \in Address,
       token_id \in TokenIds :
        LET r == transfer_batch(ledger, sender,
                                <<Group(from_, <<Tx(to_, token_id, 1)>>)>>)
        IN  /\ r.err = OK <=>
                (Authorized(sender, from_, token_id) /\ Owns(from_, token_id))
            /\ r.err = OK =>
                transfer_commit(r) = [ledger EXCEPT ![token_id] = to_]
            /\ r.err # OK =>
                /\ r.err \in TransferErrors
                /\ transfer_commit(r) = ledger

C4_SingleTransfer == []C4_OneLeg /\ [][FailedTransferChangesNothing]_vars

(* The token minted by alice, who has granted bob as operator, has just   *)
(* been moved to a third address                                           *)
C4_Witness ==
    /\ op = "transfer" /\ result = OK
    /\ all_tokens = 1 /\ hashes[0][3] = "alice" /\ ledger[0] = "admin"
    /\ [owner |-> "alice", operator |-> "bob", token_id |-> 0] \in operators
    /\ ~allow_self_transfer

(* C5: a transfer batch with a failing leg fails as a whole, with the      *)
(* error of that leg, and leaves the ledger it found, whatever the legs    *)
(* before the failing one have moved.                                      *)
C5_Batch ==
    \A sender \in Callers, params \in TwoLegs \cup OneLeg :
        LET r == transfer_batch(ledger, sender, params)
        IN  r.err # OK =>
                /\ r.err \in TransferErrors
                /\ transfer_commit(r) = ledger

C5_AllOrNothing == []C5_Batch /\ [][FailedTransferChangesNothing]_vars

(* A batch has just failed on its second leg after a first leg that alone  *)
(* succeeds and moves a token                                              *)
C5_Witness ==
    /\ op = "transfer" /\ result = not_operator
    /\ \E sender \in Users, params \in TwoLegs :
           LET first == transfer_batch(ledger, sender, <<params[1]>>)
           IN  /\ first.err = OK
               /\ first.ledger # ledger
               /\ transfer_batch(ledger, sender, params).err = not_operator

----------------------------------------------------------------------------
(* Properties of the lock *)

(* Once locked, locked stays and script and base_uri keep their value *)
C10_Latch ==
    locked => (locked' /\ script' = script /\ base_uri' = base_uri)

(* The administrator can lock; on the locked contract set_script and       *)
(* set_base_uri fail for every sender                                      *)
C10_Refused ==
    /\ lock_err(administrator) = OK
    /\ lock_value(administrator) = TRUE
    /\ locked => \A sender \in Address :
                     /\ set_script_err(sender) = err_locked
                     /\ set_base_uri_err(sender) = err_locked

(* C10: once a lock call of the administrator has succeeded, locked is     *)
(* true in every later state, whatever is called, and every set_script and *)
(* set_base_uri call fails, whoever calls, leaving script and base_uri.    *)
C10_Lock == []C10_Refused /\ [][C10_Latch]_vars

(* After the lock the administrator was replaced, the contract paused, and *)
(* the new administrator has just been refused a new base URI              *)
C10_Witness ==
    /\ locked /\ paused /\ administrator = "alice"
    /\ op = "set_base_uri" /\ result = err_locked

----------------------------------------------------------------------------
(* Properties of governance *)

GovernanceOps == {"set_administrator", "set_pause", "lock", "set_mint_parameters"}

(* A set_mint_parameters call of the administrator with a ceiling not      *)
(* below all_tokens: it succeeds and leaves exactly the given price and    *)
(* ceiling while all_tokens <= 1, and fails with SALE_STARTED, leaving     *)
(* both, once all_tokens >= 2                                              *)
C11_Boundary ==
    \A p \in Prices, m \in 0 .. (MaxSupply + 1) :
        m >= all_tokens =>
            LET r == set_mint_parameters_run(administrator,
                         [price |-> p, max_editions |-> m])
            IN  IF all_tokens <= 1
                    THEN r.err = OK /\ r.price = p /\ r.max_editions = m
                    ELSE /\ r.err = sale_started
                         /\ r.price = price
                         /\ r.max_editions = max_editions

(* A failed set_mint_parameters leaves the storage; from the second token  *)
(* on no step changes price or max_editions                                *)
C11_Frozen ==
    /\ (op' = "set_mint_parameters" /\ result' # OK) => StorageUnchanged
    /\ all_tokens >= 2 => UNCHANGED <<price, max_editions>>

(* C11: set_mint_parameters(price, max_editions) of the administrator with *)
(* max_editions >= all_tokens succeeds when all_tokens is 0 or 1, setting  *)
(* price and max_editions to the given values, and fails with SALE_STARTED *)
(* when all_tokens >= 2, leaving both: they can change after the first     *)
(* token is sold, never after the second.                                  *)
C11_SaleStarted == []C11_Boundary /\ [][C11_Frozen]_vars

(* With one token sold the administrator has just set a new price and a    *)
(* new ceiling                                                             *)
C11_Witness ==
    /\ op = "set_mint_parameters" /\ result = OK
    /\ all_tokens = 1
    /\ price # config_price /\ max_editions = 1

(* Whoever is not the administrator is refused by every governance entry   *)
(* point, which then leaves the value it guards                            *)
C12_Refused ==
    \A sender \in Address :
        sender # administrator =>
            /\ set_administrator_err(sender) = not_admin
            /\ lock_err(sender) = not_admin
            /\ lock_value(sender) = locked
            /\ \A params \in BOOLEAN :
                   /\ set_pause_err(sender) = not_admin
                   /\ set_pause_value(sender, params) = paused
            /\ \A p \in Prices, m \in 0 .. (MaxSupply + 1) :
                   LET r == set_mint_parameters_run(sender,
                                [price |-> p, max_editions |-> m])
                   IN  /\ r.err = not_admin
                       /\ r.price = price
                       /\ r.max_editions = max_editions

(* A refused governance call leaves the storage; administrator changes     *)
(* only in a set_administrator call that succeeds                          *)
C12_OnlyAdministrator ==
    /\ (op' \in GovernanceOps /\ result' # OK) =>
           (result' \in {not_admin, sale_started, bad_amount} /\ StorageUnchanged)
    /\ administrator' # administrator =>
           (op' = "set_administrator" /\ result' = OK)

(* C12: set_administrator, set_pause, lock and set_mint_parameters called  *)
(* by anyone but the current administrator fail with NOT_ADMIN and change  *)
(* nothing; administrator changes only through a set_administrator call    *)
(* that succeeds, which only the current administrator can make; a         *)
(* replaced administrator is refused like anyone else.                     *)
C12_Governance == []C12_Refused /\ [][C12_OnlyAdministrator]_vars

(* The administrator has been replaced, and a lock call of someone else,   *)
(* the previous administrator included, has just been refused              *)
C12_Witness ==
    /\ administrator = "alice"
    /\ op = "lock" /\ result = not_admin /\ ~locked
    /\ lock_err("admin") = not_admin

----------------------------------------------------------------------------
(* Properties of the operator set *)

(* The update lists of up to two entries *)
OperatorLists ==
    {<<>>} \cup {<<u>> : u \in OperatorUpdates}
           \cup {<<u, v>> : u \in OperatorUpdates, v \in OperatorUpdates}

Grants == {u \in OperatorUpdates : u.kind = "add_operator"}
Removals == {u \in OperatorUpdates : u.kind = "remove_operator"}
Key(u) == make_key(u.owner, u.operator, u.token_id)

(* The keys that are in exactly one of the two sets *)
Changed(s, t) == (s \ t) \cup (t \ s)

(* With operator support a list with an entry of another owner fails with  *)
(* NOT_OWNER, a list of the sender's own entries succeeds and changes only *)
(* keys the sender owns; without operator support every list fails with    *)
(* OPERATORS_UNSUPPORTED, whoever sends it                                 *)
C13_OwnerOnly ==
    \A sender \in Callers, params \in OperatorLists :
        LET r == update_operators_run(sender, params)
        IN  IF ~support_operator
                THEN r.err = operators_unsupported
                ELSE /\ (\E i \in DOMAIN params : params[i].owner # sender)
                            => r.err = not_owner
                     /\ (\A i \in DOMAIN params : params[i].owner = sender)
                            => r.err = OK
                     /\ r.err = OK =>
                            \A k \in Changed(r.operators, operators) :
                                k.owner = sender

(* The operator set changes only in an update_operators call that          *)
(* succeeds; a failed one leaves the storage                               *)
C13_OnlyUpdates ==
    /\ operators' # operators => (op' = "update_operators" /\ result' = OK)
    /\ (op' = "update_operators" /\ result' # OK) =>
           (result' \in {not_owner, operators_unsupported} /\ StorageUnchanged)

(* C13: with operator support an update_operators entry is accepted only   *)
(* from its owner, an entry of another owner fails the call with           *)
(* NOT_OWNER, so a key enters or leaves the operator set only in a call of *)
(* its owner; without operator support every update_operators call fails   *)
(* with OPERATORS_UNSUPPORTED.                                             *)
C13_NotOwner == []C13_OwnerOnly /\ [][C13_OnlyUpdates]_vars

(* An update of someone else's entry has just been refused, the set        *)
(* holding a key granted by its owner                                      *)
C13_Witness ==
    /\ support_operator
    /\ op = "update_operators" /\ result = not_owner
    /\ operators = {make_key("alice", "bob", 0)}

(* C14: a remove_operator of the owner succeeds whether or not the key is  *)
(* in the operator set; on an absent key it leaves the set unchanged;      *)
(* removing twice, in two calls or in one list, leaves what removing once  *)
(* leaves.                                                                 *)
C14_RevokeIdempotent ==
    support_operator =>
        \A u \in Removals :
            LET once == update_operators_run(u.owner, <<u>>)
                again == update_operators_list(once.operators, u.owner, <<u>>)
                twice == update_operators_run(u.owner, <<u, u>>)
            IN  /\ once.err = OK /\ again.err = OK /\ twice.err = OK
                /\ again.operators = once.operators
                /\ twice.operators = once.operators
                /\ Key(u) \notin once.operators
                /\ Key(u) \notin operators => once.operators = operators

(* An update has just succeeded and left the set empty, as a removal on    *)
(* the empty set does                                                      *)
C14_Witness ==
    /\ support_operator
    /\ op = "update_operators" /\ result = OK
    /\ operators = {}
    /\ \A u \in Removals :
           update_operators_run(u.owner, <<u>>)
               = [err |-> OK, operators |-> operators]

(* C15 as stated: in every operator set, add_operator followed by          *)
(* remove_operator of the same key, both by the owner, leaves the set as   *)
(* it was before the add_operator.                                         *)
C15_AsStated ==
    support_operator =>
        \A u \in Grants :
            LET r == update_operators_run(u.owner, <<u, Revoke(u)>>)
            IN  r.err = OK /\ r.operators = operators

(* C15 amended: add_operator followed by remove_operator of the same key,  *)
(* both by the owner, leaves the key absent and the membership of every    *)
(* other key as before; the set is the one before the add_operator iff the *)
(* key was absent then.                                                    *)
C15_GrantRevoke ==
    support_operator =>
        \A u \in Grants :
            LET granted == update_operators_run(u.owner, <<u>>)
                revoked == update_operators_list(granted.operators, u.owner,
                                                 <<Revoke(u)>>)
                r == update_operators_run(u.owner, <<u, Revoke(u)>>)
            IN  /\ granted.err = OK /\ revoked.err = OK /\ r.err = OK
                /\ Key(u) \in granted.operators
                /\ revoked.operators = r.operators
                /\ r.operators = operators \ {Key(u)}
                /\ r.operators = operators <=> Key(u) \notin operators

(* A key has been granted and revoked again while another key of the same  *)
(* owner and operator stays                                                *)
C15_Witness ==
    /\ support_operator
    /\ op = "update_operators" /\ result = OK
    /\ operators = {make_key("alice", "bob", 1)}
    /\ update_operators_run("alice", <<[kind |-> "add_operator",
           owner |-> "alice", operator |-> "bob", token_id |-> 0],
           [kind |-> "remove_operator", owner |-> "alice",
            operator |-> "bob", token_id |-> 0]>>).operators = operators

----------------------------------------------------------------------------
(* Properties of the queries *)

Exists(token_id) == token_id < all_tokens

(* The balance of owner for token_id: 1 for the current owner, 0 otherwise *)
Balance(owner, token_id) == IF Owns(owner, token_id) THEN 1 ELSE 0

(* A balance_of call for existing tokens emits one operation, to the       *)
(* callback, with no tez, carrying one response per request in the order   *)
(* of the requests, each with the request and the balance of its owner;    *)
(* get_balance gives the same balance; every existing token has exactly    *)
(* one owner with balance 1                                                *)
C16_Responses ==
    /\ \A requests \in RequestLists :
           LET r == balance_of_run([requests |-> requests, callback |-> consumer])
           IN  (\A i \in DOMAIN requests : Exists(requests[i].token_id)) =>
                   /\ r.err = OK
                   /\ Len(r.operations) = 1
                   /\ r.operations[1].destination = consumer
                   /\ r.operations[1].amount = 0
                   /\ Len(r.operations[1].arg) = Len(requests)
                   /\ \A i \in DOMAIN requests :
                          /\ r.operations[1].arg[i].request = requests[i]
                          /\ r.operations[1].arg[i].balance
                                 = Balance(requests[i].owner, requests[i].token_id)
                          /\ get_balance(requests[i]).result
                                 = r.operations[1].arg[i].balance
    /\ \A token_id \in TokenIds :
           Exists(token_id) =>
               Cardinality({owner \in Address :
                   get_balance(Request(owner, token_id)).result = 1}) = 1

(* balance_of leaves the storage, and emits an operation iff it succeeds *)
C16_ReadOnly ==
    op' = "balance_of" =>
        /\ StorageUnchanged
        /\ result' = OK <=> Len(operations') = 1

(* C16: balance_of sends the callback one response per request, in request *)
(* order, with balance 1 iff the requested owner is the current owner of   *)
(* the requested token and 0 otherwise, and changes no storage; every      *)
(* existing token has exactly one owner with balance 1; after alice mints  *)
(* token 0, grants bob as operator and bob moves it to a third address,    *)
(* the balances of token 0 are 1 for that address and 0 for alice.         *)
C16_BalanceOf == []C16_Responses /\ [][C16_ReadOnly]_vars

(* Token 0, minted by alice who granted bob as operator, has been moved to *)
(* admin, and balance_of has just answered 1 for admin and 0 for alice     *)
C16_Witness ==
    /\ all_tokens = 1
    /\ hashes[0] = keccak(0, "alice", 0)
    /\ make_key("alice", "bob", 0) \in operators
    /\ ledger[0] = "admin"
    /\ op = "balance_of" /\ result = OK
    /\ operations = <<sp_transfer(
           <<[request |-> Request("admin", 0), balance |-> 1],
             [request |-> Request("alice", 0), balance |-> 0]>>, 0, consumer)>>

(* get_balance, balance_of and token_metadata fail with TOKEN_UNDEFINED on *)
(* a token that is not minted and succeed on a minted one                  *)
C17_RegistryQueries ==
    \A owner \in Address, token_id \in TokenIds :
        LET expected == IF Exists(token_id) THEN OK ELSE token_undefined
        IN  /\ get_balance(Request(owner, token_id)).err = expected
            /\ balance_of_run(OneRequest(owner, token_id)).err = expected
            /\ token_metadata(token_id).err = expected
            /\ does_token_exist(token_id) <=> Exists(token_id)

(* total_supply fails with TOKEN_UNDEFINED on a token that is not minted   *)
(* and succeeds on a minted one                                            *)
C17_TotalSupply ==
    \A tok \in TokenIds :
        total_supply(tok).err = IF Exists(tok) THEN OK ELSE token_undefined

(* C17 as stated: get_balance, balance_of, token_metadata and total_supply *)
(* fail with TOKEN_UNDEFINED for a token id that is not minted             *)
(* (id >= all_tokens) and succeed for every minted id.                     *)
C17_AsStated == C17_RegistryQueries /\ C17_TotalSupply

(* total_supply fails with TOKEN_UNDEFINED iff the token id is not below   *)
(* max_editions, and is 1 otherwise: on every minted token, and on the     *)
(* tokens not minted yet that are below max_editions                       *)
C17_CeilingSupply ==
    /\ \A tok \in 0 .. (MaxSupply + 1) :
           total_supply(tok) = IF tok < max_editions
                                   THEN [err |-> OK, result |-> 1]
                                   ELSE [err |-> token_undefined]
    /\ \A tok \in TokenIds : Exists(tok) => total_supply(tok).err = OK
    /\ \A tok \in TokenIds :
           (~Exists(tok) /\ tok < max_editions) => total_supply(tok).err = OK

(* C17 amended: get_balance, balance_of and token_metadata fail with        *)
(* TOKEN_UNDEFINED for a token id that is not minted (id >= all_tokens)    *)
(* and succeed for every minted id; total_supply fails with                *)
(* TOKEN_UNDEFINED iff the id is not below max_editions, so it succeeds    *)
(* for every minted id and for the ids below max_editions not minted yet.  *)
C17_TokenUndefined == C17_RegistryQueries /\ C17_CeilingSupply

(* With token 0 minted and the ceiling at 2, balance_of has just failed on *)
(* a token that is not minted; token 1 has no metadata but a total supply  *)
C17_Witness ==
    /\ all_tokens = 1 /\ max_editions = 2
    /\ op = "balance_of" /\ result = token_undefined
    /\ token_metadata(1).err = token_undefined
    /\ get_balance(Request("alice", 1)).err = token_undefined
    /\ total_supply(1).err = OK

(* The withdrawal of a sender who is not the administrator fails with      *)
(* NOT_ADMIN                                                               *)
C18_Named ==
    \A sender \in Address, destination \in Address, amount \in Payments :
        sender # administrator =>
            mutez_transfer_run(sender, [destination |-> destination,
                                        amount |-> amount]).err = not_admin

(* The withdrawal of anyone but the administrator fails, that of the       *)
(* administrator fails iff the amount exceeds the balance; a failed        *)
(* withdrawal sends nothing and leaves the balance, one that succeeds      *)
(* sends the amount to the destination and takes it from the balance,      *)
(* which is never negative                                                 *)
C18_Withdrawal ==
    /\ balance >= 0
    /\ \A sender \in Address, destination \in Address, amount \in Payments :
           LET r == mutez_transfer_run(sender, [destination |-> destination,
                                                amount |-> amount])
           IN  /\ r.err = OK <=> (sender = administrator /\ amount <= balance)
               /\ r.err # OK => (r.operations = <<>> /\ r.balance = balance)
               /\ r.err = OK =>
                      /\ r.operations = <<sp_transfer(<<>>, amount, destination)>>
                      /\ r.balance = balance - amount
                      /\ r.balance >= 0

(* C18 as stated: transfer_mutez called by anyone but the administrator    *)
(* fails with NOT_ADMIN, called by the administrator for more than the     *)
(* balance it fails; a failed call sends nothing and leaves the balance; a *)
(* call that succeeds sends exactly the amount; the balance is never       *)
(* negative.                                                               *)
C18_AsStated == C18_Named /\ C18_Withdrawal

----------------------------------------------------------------------------
(* Properties of the checks of a transfer leg *)

(* The outcome of the transfer of the one leg (from_, to_, token_id, amount) *)
Leg(sender, from_, to_, token_id, amount) ==
    transfer_batch(ledger, sender,
                   <<Group(from_, <<Tx(to_, token_id, amount)>>)>>)

(* C19: the checks of a transfer leg run in the order authorization,       *)
(* existence, amount bound, ownership, and the first one violated gives    *)
(* the error: NOT_OPERATOR for an unauthorized sender, whatever the token  *)
(* id and the amount; else TOKEN_UNDEFINED for a token that is not minted, *)
(* whatever the amount; else INSUFFICIENT_BALANCE for an amount above 1;   *)
(* else INSUFFICIENT_BALANCE for the amount 1 when from_ is not the owner. *)
C19_CheckOrder ==
    \A sender \in Callers, from_ \in Address, to_ \in Address,
       token_id \in TokenIds, amount \in TxAmounts :
        Leg(sender, from_, to_, token_id, amount).err =
            IF ~Authorized(sender, from_, token_id) THEN not_operator
            ELSE IF ~Exists(token_id) THEN token_undefined
            ELSE IF amount > 1 THEN insufficient_balance
            ELSE IF amount = 1 /\ ledger[token_id] # from_
                THEN insufficient_balance
            ELSE OK

(* With token 0 minted by alice and token 1 not minted, a transfer has     *)
(* just failed on a token that is not minted; for the amount 2 the leg of  *)
(* token 1 fails with NOT_OPERATOR sent by a stranger and with             *)
(* TOKEN_UNDEFINED sent by from_, the leg of token 0 with                  *)
(* INSUFFICIENT_BALANCE                                                    *)
C19_Witness ==
    /\ op = "transfer" /\ result = token_undefined
    /\ all_tokens = 1 /\ ledger[0] = "alice" /\ operators = {}
    /\ ~allow_self_transfer
    /\ Leg("bob", "alice", "bob", 1, 2).err = not_operator
    /\ Leg("alice", "alice", "bob", 1, 2).err = token_undefined
    /\ Leg("alice", "alice", "bob", 0, 2).err = insufficient_balance
    /\ Leg("bob", "bob", "alice", 0, 1).err = insufficient_balance

(* C20: a transfer leg of amount 0 changes nothing; it fails with          *)
(* NOT_OPERATOR for an unauthorized sender, else with TOKEN_UNDEFINED for  *)
(* a token that is not minted, and succeeds otherwise, whether or not      *)
(* from_ owns the token.                                                   *)
C20_ZeroAmount ==
    \A sender \in Callers, from_ \in Address, to_ \in Address,
       token_id \in TokenIds :
        LET r == Leg(sender, from_, to_, token_id, 0)
        IN  /\ r.err = IF ~Authorized(sender, from_, token_id) THEN not_operator
                       ELSE IF ~Exists(token_id) THEN token_undefined
                       ELSE OK
            /\ r.ledger = ledger
            /\ transfer_commit(r) = ledger
            /\ (/\ Authorized(sender, from_, token_id)
                /\ Exists(token_id)
                /\ ~Owns(from_, token_id)) => r.err = OK

(* A transfer has just succeeded and token 0 is with alice, who minted it; *)
(* the leg of amount 0 that bob sends from himself for that token succeeds *)
(* and moves nothing, the same leg of amount 1 fails                       *)
C20_Witness ==
    /\ op = "transfer" /\ result = OK
    /\ all_tokens = 1 /\ ledger[0] = "alice" /\ hashes[0][3] = "alice"
    /\ Leg("bob", "bob", "admin", 0, 0) = [err |-> OK, ledger |-> ledger]
    /\ Leg("bob", "bob", "admin", 0, 1).err = insufficient_balance

----------------------------------------------------------------------------
(* Properties of the order of the legs *)

(* The two shapes of a batch of the legs (f1, t1, i1, 1) and (f2, t2, i2, 1): *)
(* two groups of one tx, and for f1 = f2 one group of two txs              *)
TwoGroups(f1, t1, i1, f2, t2, i2) ==
    <<Group(f1, <<Tx(t1, i1, 1)>>), Group(f2, <<Tx(t2, i2, 1)>>)>>
OneGroup(f, t1, i1, t2, i2) ==
    <<Group(f, <<Tx(t1, i1, 1), Tx(t2, i2, 1)>>)>>

(* A batch of two legs gives what its second leg gives on the ledger its   *)
(* first leg leaves, or the error of the first leg                         *)
C21_Sequential ==
    \A sender \in Users, a \in Legs, b \in Legs :
        LET first == Leg(sender, a[1], a[2].to_, a[2].token_id, 1)
            second == transfer_batch(first.ledger, sender,
                                     <<Group(b[1], <<b[2]>>)>>)
            r == transfer_batch(ledger, sender,
                                <<Group(a[1], <<a[2]>>), Group(b[1], <<b[2]>>)>>)
        IN  r = IF first.err # OK THEN first ELSE second

(* Two legs of the sender A for a token A owns: the batch fails on the     *)
(* second leg with INSUFFICIENT_BALANCE and leaves the ledger, unless the  *)
(* first leg sends the token to A, and then the second leg moves it        *)
C21_SameToken ==
    \A A \in Address, t1 \in Address, t2 \in Address, i \in TokenIds :
        Owns(A, i) =>
            \A params \in {TwoGroups(A, t1, i, A, t2, i), OneGroup(A, t1, i, t2, i)} :
                LET r == transfer_batch(ledger, A, params)
                IN  /\ Leg(A, A, t1, i, 1).err = OK
                    /\ IF t1 = A
                           THEN /\ r.err = OK
                                /\ transfer_commit(r) = [ledger EXCEPT ![i] = t2]
                           ELSE /\ r.err = insufficient_balance
                                /\ r.ledger = [ledger EXCEPT ![i] = t1]
                                /\ transfer_commit(r) = ledger

(* A batch whose second leg moves the token on from the destination of the *)
(* first leg succeeds iff the first leg succeeds (the sender may move the  *)
(* tokens of from_, who owns the token) and the sender may move the tokens *)
(* of that destination; it then leaves the token with the destination of   *)
(* the second leg; it fails with NOT_OPERATOR on the second leg otherwise  *)
C21_Onward ==
    \A sender \in Callers, f \in Address, t1 \in Address, t2 \in Address,
       i \in TokenIds :
        LET r == transfer_batch(ledger, sender, TwoGroups(f, t1, i, t1, t2, i))
            first == (Authorized(sender, f, i) /\ Owns(f, i))
        IN  IF first /\ Authorized(sender, t1, i)
                THEN r.err = OK /\ transfer_commit(r) = [ledger EXCEPT ![i] = t2]
            ELSE IF first
                THEN r.err = not_operator /\ transfer_commit(r) = ledger
            ELSE r.err = Leg(sender, f, t1, i, 1).err /\ r.err # OK

C21_Order == C21_Sequential /\ C21_SameToken /\ C21_Onward

(* C21: the legs of a transfer batch run in input order, each on the       *)
(* ledger the legs before it leave: two legs of the sender A for one token *)
(* of A fail on the second leg with INSUFFICIENT_BALANCE, and the first is *)
(* not kept, unless the first leg sends the token to A; a batch whose      *)
(* second leg moves the token on from the destination of the first         *)
(* succeeds only if the sender may move the tokens of that destination.    *)
C21_InputOrder == []C21_Order /\ [][FailedTransferChangesNothing]_vars

(* A batch has just failed with INSUFFICIENT_BALANCE and alice still owns  *)
(* token 0: her batch of two legs of token 0 fails on the second leg after *)
(* a first leg that moves the token                                        *)
C21_Witness ==
    /\ op = "transfer" /\ result = insufficient_balance
    /\ all_tokens = 1 /\ ledger[0] = "alice"
    /\ Leg("alice", "alice", "bob", 0, 1).ledger[0] = "bob"
    /\ transfer_batch(ledger, "alice",
           TwoGroups("alice", "bob", 0, "alice", "admin", 0))
           = [err |-> insufficient_balance, ledger |-> [ledger EXCEPT ![0] = "bob"]]

----------------------------------------------------------------------------
(* Properties of the order of the operator updates *)

(* A list of two entries gives what its second entry gives on the set its  *)
(* first entry leaves, or the error of the first entry; for one key,       *)
(* add_operator then remove_operator leaves the key absent, and            *)
(* remove_operator then add_operator leaves it present; a call that fails  *)
(* leaves the operator set it found, whatever its first entries did        *)
C22_Ordered ==
    support_operator =>
        /\ \A sender \in Callers, u \in OperatorUpdates, v \in OperatorUpdates :
               LET first == update_operator(operators, sender, u)
                   r == update_operators_run(sender, <<u, v>>)
               IN  /\ r = IF first.err # OK THEN first
                          ELSE update_operator(first.operators, sender, v)
                   /\ r.err # OK =>
                          /\ r.err = not_owner
                          /\ update_operators_commit(r) = operators
        /\ \A u \in Grants :
               LET ar == update_operators_run(u.owner, <<u, Revoke(u)>>)
                   ra == update_operators_run(u.owner, <<Revoke(u), u>>)
               IN  /\ ar.err = OK /\ ra.err = OK
                   /\ update_operators_commit(ar) = operators \ {Key(u)}
                   /\ update_operators_commit(ra) = operators \cup {Key(u)}

(* A failed update_operators call leaves the storage *)
C22_Atomic ==
    (op' = "update_operators" /\ result' # OK) => StorageUnchanged

(* C22: update_operators applies its entries in input order and            *)
(* atomically: for one key, [add, remove] leaves it absent and             *)
(* [remove, add] leaves it present; if an entry fails with NOT_OWNER the   *)
(* call fails and what the entries before it granted or revoked is not     *)
(* kept.                                                                   *)
C22_ListOrder == []C22_Ordered /\ [][C22_Atomic]_vars

(* A list has just failed with NOT_OWNER and the operator set is empty:    *)
(* the list of a grant of alice followed by a grant of bob, sent by alice, *)
(* fails on its second entry after the first one has added a key           *)
C22_Witness ==
    /\ support_operator
    /\ op = "update_operators" /\ result = not_owner
    /\ operators = {}
    /\ update_operators_run("alice",
           <<[kind |-> "add_operator", owner |-> "alice",
              operator |-> "bob", token_id |-> 0],
             [kind |-> "add_operator", owner |-> "bob",
              operator |-> "alice", token_id |-> 0]>>)
           = [err |-> not_owner, operators |-> {make_key("alice", "bob", 0)}]

----------------------------------------------------------------------------
(* Properties of the issuance loop *)

(* C23: the two checks inside the issuance loop never fail: when the       *)
(* checks before the loop have passed (all_tokens + amount <= max_editions *)
(* among them), every iteration finds its id below max_editions and equal  *)
(* to the counter, the loop runs amount times and the mint succeeds; no    *)
(* mint fails with "Token-IDs should be consecutive", and one that fails   *)
(* with MAX_EDITIONS_REACHED has failed before the loop.                   *)
C23_LoopChecks ==
    \A sender \in Address, amount \in MintAmounts, sp_amount \in Payments,
       now \in Timestamps :
        LET before == mint_precheck(amount, sp_amount)
            r == mint_run(sender, amount, sp_amount, now)
        IN  /\ before = OK =>
                /\ r.err = OK
                /\ r.all_tokens = all_tokens + amount
                /\ NewIds(r) = all_tokens .. (all_tokens + amount - 1)
                /\ \A k \in NewIds(r) : k < max_editions
                /\ \A i \in 0 .. amount :
                       LET st == mint_loop([err |-> OK, ledger |-> ledger,
                                            hashes |-> hashes,
                                            all_tokens |-> all_tokens],
                                           i, sender, now)
                       IN  st.err = OK /\ st.all_tokens = all_tokens + i
            /\ before # OK => r.err = before
            /\ r.err # not_consecutive

(* A mint of two tokens has just run the loop twice, up to the ceiling *)
C23_Witness ==
    /\ op = "mint" /\ result = OK
    /\ all_tokens = 2 /\ max_editions = 2 /\ balance = 2 * price
    /\ hashes[0][2] = hashes[1][2] /\ hashes[0][3] = hashes[1][3]

----------------------------------------------------------------------------
(* Properties of the registry *)

GovernanceFields ==
    <<price, max_editions, script, base_uri, paused, locked, administrator>>

(* The legs of amount 1 of the batch params that name token_id *)
NamedBy(params, token_id) ==
    {<<g, x>> \in {<<g, x>> \in (DOMAIN params) \X (1 .. 2) :
                      x \in DOMAIN params[g].txs} :
        /\ params[g].txs[x].token_id = token_id
        /\ params[g].txs[x].amount = 1}

(* A transfer changes the owner only of tokens named in legs of amount 1,  *)
(* to the destination of one of these legs, and keeps the keys of the      *)
(* ledger; a mint keeps the owners and hashes of the tokens issued before  *)
C24_Outcomes ==
    /\ \A sender \in Users, params \in OneLeg \cup TwoLegs :
           LET l == transfer_commit(transfer_batch(ledger, sender, params))
           IN  /\ DOMAIN l = DOMAIN ledger
               /\ \A k \in DOMAIN ledger :
                      l[k] # ledger[k] =>
                          \E n \in NamedBy(params, k) :
                              l[k] = params[n[1]].txs[n[2]].to_
    /\ \A sender \in Address, amount \in 1 .. MaxSupply, now \in Timestamps :
           LET r == mint_commit(mint_run(sender, amount, price * amount, now))
           IN  \A k \in DOMAIN ledger :
                   /\ k \in DOMAIN r.ledger /\ r.ledger[k] = ledger[k]
                   /\ k \in DOMAIN r.hashes /\ r.hashes[k] = hashes[k]

(* Every step keeps the tokens of the registry and their hashes; only a    *)
(* mint that succeeds adds tokens; only a transfer that succeeds changes   *)
(* an owner, and a transfer changes nothing else; every other entry point  *)
(* but mint leaves ledger, hashes and all_tokens                           *)
C24_Steps ==
    /\ \A k \in DOMAIN ledger :
           /\ k \in DOMAIN ledger' /\ k \in DOMAIN hashes'
           /\ hashes'[k] = hashes[k]
           /\ ledger'[k] # ledger[k] => (op' = "transfer" /\ result' = OK)
    /\ (DOMAIN ledger' # DOMAIN ledger \/ all_tokens' # all_tokens)
           => (op' = "mint" /\ result' = OK)
    /\ op' = "transfer" =>
           UNCHANGED <<hashes, all_tokens, operators, GovernanceFields, balance>>
    /\ op' # "mint" => UNCHANGED <<hashes, all_tokens>>
    /\ op' \notin {"mint", "transfer"} => UNCHANGED ledger
    /\ op' = "mint" =>
           \A k \in DOMAIN ledger : ledger'[k] = ledger[k]

(* C24: registry entries are created only by mint and never deleted, and   *)
(* only their owner changes, only by transfer: a transfer leaves           *)
(* all_tokens, the hashes, the operator set and the governance fields and  *)
(* changes the owner only of tokens named in its legs of amount 1;         *)
(* update_operators and the governance entry points leave ledger, hashes   *)
(* and all_tokens; a mint leaves the owners and hashes of the tokens       *)
(* issued before.                                                          *)
C24_Registry == []C24_Outcomes /\ [][C24_Steps]_vars

(* Token 0, minted by alice who granted bob as operator, was moved to bob, *)
(* the administrator was replaced and has locked the contract with a new   *)
(* script, and alice has just minted token 1: token 0 keeps its owner and  *)
(* its hash                                                                *)
C24_Witness ==
    /\ op = "mint" /\ result = OK /\ all_tokens = 2
    /\ hashes[0] = keccak(0, "alice", 0) /\ ledger[0] = "bob"
    /\ hashes[1] = keccak(0, "alice", 1) /\ ledger[1] = "alice"
    /\ make_key("alice", "bob", 0) \in operators
    /\ administrator = "bob" /\ locked /\ script = "script"

----------------------------------------------------------------------------
(* Properties of a delegation *)

(* With the key (X, Y, id) in the operator set: while X owns id, Y moves   *)
(* id from X to anyone; while some Z other than X and Y owns id, and Y is  *)
(* not an operator of Z for id, every leg of amount 1 for id that Y sends  *)
(* fails, whoever it names as from_; while id is not minted the leg fails  *)
(* with TOKEN_UNDEFINED                                                    *)
C25_Power ==
    \A X \in Users, Y \in Users, id \in TokenIds, to_ \in Address :
        (X # Y /\ is_operator([owner |-> X, operator |-> Y, token_id |-> id])) =>
            /\ Owns(X, id) =>
                   Leg(Y, X, to_, id, 1)
                       = [err |-> OK, ledger |-> [ledger EXCEPT ![id] = to_]]
            /\ ~Exists(id) => Leg(Y, X, to_, id, 1).err = token_undefined
            /\ \A Z \in Address :
                   (/\ Owns(Z, id) /\ Z # X /\ Z # Y
                    /\ ~is_operator([owner |-> Z, operator |-> Y, token_id |-> id]))
                       => /\ Leg(Y, X, to_, id, 1).err = insufficient_balance
                          /\ Leg(Y, Z, to_, id, 1).err = not_operator
                          /\ \A from_ \in Address :
                                 Leg(Y, from_, to_, id, 1).err # OK

(* No transfer and no mint changes the operator set: a key stays when its  *)
(* token leaves its owner, and a key granted before its token is minted is *)
(* there when the token is minted                                          *)
C25_KeyStays ==
    op' \in {"transfer", "mint"} => operators' = operators

(* C25: the key (X, Y, id) lets Y move id only while X owns id: a transfer *)
(* of id away from X keeps the key; while some Z other than X owns id,     *)
(* every transfer of amount 1 of id by Y (who is not Z and not an operator *)
(* of Z) fails; when X owns id again Y can move it without a new grant; a  *)
(* key granted before id is minted takes effect when X owns id.            *)
C25_Delegation == []C25_Power /\ [][C25_KeyStays]_vars

(* Token 0 of alice, who granted bob as operator, is with admin, the key   *)
(* is still there, and a transfer has just been refused with NOT_OPERATOR; *)
(* bob holds a key for token 1, which is not minted                        *)
C25_Witness ==
    /\ ~allow_self_transfer
    /\ op = "transfer" /\ result = not_operator
    /\ all_tokens = 1 /\ hashes[0][3] = "alice" /\ ledger[0] = "admin"
    /\ operators = {make_key("alice", "bob", 0), make_key("alice", "bob", 1)}
    /\ Leg("bob", "admin", "bob", 0, 1).err = not_operator

----------------------------------------------------------------------------
(* Properties of the pause flag outside mint *)

(* The outcome (the error and the values written) of every transfer,       *)
(* update_operators, set_mint_parameters, set_administrator, lock,         *)
(* set_script and set_base_uri call in the current state                   *)
NonMintOutcomes ==
    [transfer |->
         [sender \in Users, params \in OneLeg |->
              LET r == transfer_batch(ledger, sender, params)
              IN  <<r.err, transfer_commit(r)>>],
     update_operators |->
         [sender \in Users, u \in OperatorUpdates |->
              LET r == update_operators_run(sender, <<u>>)
              IN  <<r.err, update_operators_commit(r)>>],
     set_mint_parameters |->
         [sender \in Address, p \in Prices, m \in 0 .. MaxSupply |->
              set_mint_parameters_run(sender, [price |-> p, max_editions |-> m])],
     set_administrator |->
         [sender \in Address |-> set_administrator_err(sender)],
     lock |->
         [sender \in Address |-> <<lock_err(sender), lock_value(sender)>>],
     set_script |->
         [sender \in Address |-> set_script_err(sender)],
     set_base_uri |->
         [sender \in Address |-> set_base_uri_err(sender)]]

(* The administrator can flip paused in every state, which changes nothing *)
(* else in the storage                                                     *)
C26_Flip ==
    /\ set_pause_err(administrator) = OK
    /\ set_pause_value(administrator, ~paused) = ~paused

(* The two states of a step that flips paused differ in the storage only   *)
(* in paused, and every call other than mint and set_pause has the same    *)
(* outcome in both                                                         *)
C26_SameOutcome ==
    paused' # paused =>
        /\ UNCHANGED <<ledger, hashes, operators, all_tokens, price,
                       max_editions, script, base_uri, locked, administrator,
                       balance, config>>
        /\ NonMintOutcomes' = NonMintOutcomes

(* C26: paused gates mint only: in every state, every transfer,            *)
(* update_operators, set_mint_parameters, set_administrator, lock,         *)
(* set_script and set_base_uri call gives the same outcome, success or the *)
(* same error, and writes the same values, whether paused is true or       *)
(* false.                                                                  *)
C26_PauseBlind == []C26_Flip /\ [][C26_SameOutcome]_vars

(* The contract, with a token that its owner's operator can move, has just *)
(* been paused: the state before the step is the same state unpaused       *)
C26_Witness ==
    /\ op = "set_pause" /\ result = OK /\ paused
    /\ all_tokens = 1 /\ ledger[0] = "alice"
    /\ operators = {make_key("alice", "bob", 0)}
    /\ Leg("bob", "alice", "bob", 0, 1).err = OK

----------------------------------------------------------------------------
(* Properties of bytes_of_nat and of the token URIs *)

(* The number a string of decimal digits denotes, most significant first *)
RECURSIVE Value(_)
Value(s) ==
    IF s = <<>> THEN 0
    ELSE 10 * Value(SubSeq(s, 1, Len(s) - 1)) + (s[Len(s)] - 48)

(* s is the decimal representation of n in ASCII digits, without leading   *)
(* zero, "0" for 0                                                         *)
Decimal(n, s) ==
    /\ Len(s) >= 1
    /\ \A k \in DOMAIN s : s[k] \in 48 .. 57
    /\ Value(s) = n
    /\ Len(s) > 1 => s[1] # 48
    /\ n = 0 => s = <<48>>

(* The uri of the metadata of an issued token *)
Uri(token_id) == token_metadata(token_id).result.token_info.uri

(* C27: for every natural number n, bytes_of_nat(n) is the decimal         *)
(* representation of n in ASCII digit bytes, most significant digit first, *)
(* without leading zero, 0 being "0"; the metadata URI of an issued token  *)
(* is base_uri followed by bytes_of_nat(token_id), so that distinct tokens *)
(* have distinct URIs under the same base_uri.                             *)
C27_Uri ==
    /\ \A n \in 0 .. MaxNat : Decimal(n, bytes_of_nat(n))
    /\ \A token_id \in Issued :
           /\ token_metadata(token_id).err = OK
           /\ Uri(token_id) = base_uri \o bytes_of_nat(token_id)
           /\ SubSeq(Uri(token_id), 1, Len(base_uri)) = base_uri
           /\ Decimal(token_id, SubSeq(Uri(token_id), Len(base_uri) + 1,
                                       Len(Uri(token_id))))
    /\ Cardinality({Uri(token_id) : token_id \in Issued}) = all_tokens

(* Tokens 0, 10, 100 and 101 are issued, under the base URI "/a" *)
C27_Witness ==
    /\ op = "mint" /\ result = OK
    /\ all_tokens = 102
    /\ base_uri = <<47, 97>>
    /\ Uri(0) = <<47, 97, 48>>
    /\ Uri(10) = <<47, 97, 49, 48>>
    /\ Uri(100) = <<47, 97, 49, 48, 48>>
    /\ Uri(101) = <<47, 97, 49, 48, 49>>

====
